---- MODULE Spec2Model ----
(***************************************************************************)
(* The two C templates of the repository, CODE-C-001-C-source.c and        *)
(* c-header.h, read as what they are: a sequence of banner lines and of    *)
(* code lines, most of them commented out.  The model reads each file top  *)
(* to bottom (Scan), runs the main function of the source template         *)
(* (ParseArgs .. CleanupAndExit) and calls the int-returning functions the *)
(* templates declare or sketch (CallFunction).                             *)
(*                                                                         *)
(* variant = "shipped" is the text as it is in the repository; variant =   *)
(* "enabled" is the same text with its commented-out code lines            *)
(* uncommented (the skeleton the templates sketch).                        *)
(***************************************************************************)
EXTENDS Integers, Sequences, FiniteSets, TLC

VARIABLES
    variant,    \* "shipped" | "enabled"
    file,       \* "c" (CODE-C-001-C-source.c) | "h" (c-header.h)
    scanPos,    \* number of items of the file read so far in this pass
    pass,       \* which reading of the file this is (the header may be included again)
    skipping,   \* inside an #ifndef whose macro is already defined
    macros,     \* macro names defined so far in the translation unit
    symbols,    \* name -> number of times a live declaration of it was processed
    includes,   \* header names pulled in by live #include lines
    fileVars,   \* file-scope variables declared by live lines
    block,      \* the top-level block the reader is in ("" between blocks)
    ended,      \* blocks whose END banner was read, in reading order
    started,    \* blocks whose start banner was read, in reading order
    sections,   \* section banners read inside SETUP, in reading order
    pc,         \* position of main: "idle", "step1" .. "step6", "exited"
    argc,       \* main's argument count
    argv,       \* main's argument vector
    trace,      \* calls main has made, in order, with their return values
    errOut,     \* messages main wrote to stderr
    exit,       \* {} until main returns, then {its return value}
    globals,    \* values of the file-scope variables of the running program
    lastCall,   \* the last call of a declared function: [fn, outcome, ret]
    heap,       \* instance -> "unallocated" | "live" | "freed"
    frees,      \* instance -> number of times [type]_destroy freed it
    cpc,        \* usage block -> "create" | "check" | "use" | "destroy" | "done"
    ptr,        \* usage block -> the pointer [type]_create gave it (NULL: none)
    misuse,     \* an instance was used or destroyed after it was destroyed
    logCalls    \* calls of the logger made by the file's functions: [fn, logger]

vars == << variant, file, scanPos, pass, skipping, macros, symbols, includes,
           fileVars, block, ended, started, sections, pc, argc, argv, trace, errOut,
           exit, globals, lastCall, heap, frees, cpc, ptr, misuse, logCalls >>

scanVars == << scanPos, pass, skipping, macros, symbols, includes, fileVars, block,
               ended, started, sections >>

mainVars == << pc, argc, argv, trace, errOut, exit, globals >>

lifeVars == << heap, frees, cpc, ptr, misuse >>

\* ------------------------------------------------------------------ bounds

MaxArgc == 2

MaxIncludes == 3

MaxBufSize == 3

MaxClients == 2

MaxLogCalls == 2

ArgWords == {"--help", "x"}

\* The values an int-returning step of main may hand back: zero and some non-zero ones.
RetVals == -2 .. 2

\* ------------------------------------------------------------- the two files

Files == {"c", "h"}

Variants == {"shipped", "enabled"}

\* The banner lines (a comment line between two rule lines: "block" between
\* ==== rules, "section" between ---- rules, "final" between double rules) and
\* the code lines (live or commented out) of CODE-C-001-C-source.c, in file order.
CSourceItems ==
    <<
    [line |-> 138, kind |-> "block", text |-> "END METADATA"],
    [line |-> 142, kind |-> "block", text |-> "SETUP"],
    [line |-> 165, kind |-> "section", text |-> "Includes"],
    [line |-> 178, kind |-> "include", text |-> "stdio.h"],
    [line |-> 179, kind |-> "include", text |-> "stdlib.h"],
    [line |-> 180, kind |-> "include", text |-> "string.h"],
    [line |-> 181, kind |-> "include", text |-> "stdint.h"],
    [line |-> 182, kind |-> "include", text |-> "stdbool.h"],
    [line |-> 188, kind |-> "include", text |-> "[header].h"],
    [line |-> 189, kind |-> "include", text |-> "../[path]/[header].h"],
    [line |-> 197, kind |-> "include", text |-> "[external].h"],
    [line |-> 200, kind |-> "section", text |-> "Defines (Constants)"],
    [line |-> 219, kind |-> "define", text |-> "[CONSTANT_NAME]"],
    [line |-> 222, kind |-> "define", text |-> "[ANOTHER_CONSTANT]"],
    [line |-> 228, kind |-> "define", text |-> "DEFAULT_[THING]"],
    [line |-> 231, kind |-> "section", text |-> "Static Variables"],
    [line |-> 252, kind |-> "var", text |-> "[variable_name]"],
    [line |-> 261, kind |-> "var", text |-> "[config_var]"],
    [line |-> 264, kind |-> "section", text |-> "Types"],
    [line |-> 284, kind |-> "typedef", text |-> "[EnumName]"],
    [line |-> 303, kind |-> "typedef", text |-> "[TypeName]"],
    [line |-> 320, kind |-> "typedef", text |-> "[ComposedType]"],
    [line |-> 334, kind |-> "typedef", text |-> "[Config]"],
    [line |-> 337, kind |-> "section", text |-> "Function Prototypes"],
    [line |-> 354, kind |-> "proto", text |-> "[function_name]"],
    [line |-> 360, kind |-> "proto", text |-> "[function_name]"],
    [line |-> 367, kind |-> "proto", text |-> "[function_name]"],
    [line |-> 370, kind |-> "section", text |-> "File-Level State (Rails Pattern)"],
    [line |-> 391, kind |-> "var", text |-> "component_logger"],
    [line |-> 397, kind |-> "var", text |-> "component_inspector"],
    [line |-> 404, kind |-> "func", text |-> "init_[component]"],
    [line |-> 414, kind |-> "block", text |-> "END SETUP"],
    [line |-> 418, kind |-> "block", text |-> "BODY"],
    [line |-> 424, kind |-> "section", text |-> "Organizational Chart - Internal Structure"],
    [line |-> 469, kind |-> "section", text |-> "Helpers/Utilities - Internal Support"],
    [line |-> 498, kind |-> "func", text |-> "[helper_name]"],
    [line |-> 506, kind |-> "section", text |-> "Core Operations - Business Logic"],
    [line |-> 514, kind |-> "section", text |-> "[Category 1 Name] - [Purpose]"],
    [line |-> 578, kind |-> "func", text |-> "[function_name]"],
    [line |-> 599, kind |-> "section", text |-> "[Category 2 Name] - [Purpose]"],
    [line |-> 604, kind |-> "section", text |-> "Error Handling/Recovery Patterns"],
    [line |-> 644, kind |-> "func", text |-> "log_error"],
    [line |-> 678, kind |-> "section", text |-> "Public APIs - Exported Interface"],
    [line |-> 722, kind |-> "func", text |-> "[public_function_name]"],
    [line |-> 750, kind |-> "block", text |-> "END BODY"],
    [line |-> 754, kind |-> "block", text |-> "CLOSING"],
    [line |-> 760, kind |-> "section", text |-> "Code Validation: [executableName] (Command)"],
    [line |-> 802, kind |-> "section", text |-> "Code Execution: [executableName] (Command)"],
    [line |-> 838, kind |-> "func", text |-> "main"],
    [line |-> 873, kind |-> "section", text |-> "Code Cleanup: [executableName] (Command)"],
    [line |-> 937, kind |-> "final", text |-> "FINAL DOCUMENTATION"],
    [line |-> 941, kind |-> "section", text |-> "Executable Overview & Usage Summary"],
    [line |-> 963, kind |-> "section", text |-> "Modification Policy"],
    [line |-> 993, kind |-> "section", text |-> "Ladder and Baton Flow"],
    [line |-> 1011, kind |-> "section", text |-> "Surgical Update Points (Extension Guide)"],
    [line |-> 1028, kind |-> "section", text |-> "Performance Considerations"],
    [line |-> 1044, kind |-> "section", text |-> "Troubleshooting Guide"],
    [line |-> 1064, kind |-> "section", text |-> "Related Components & Dependencies"],
    [line |-> 1083, kind |-> "section", text |-> "Future Expansions & Roadmap"],
    [line |-> 1130, kind |-> "section", text |-> "Closing Note"],
    [line |-> 1150, kind |-> "section", text |-> "Quick Reference: Usage Examples"],
    [line |-> 1192, kind |-> "block", text |-> "END CLOSING"]
    >>

\* The same for c-header.h.
HeaderItems ==
    <<
    [line |-> 24, kind |-> "ifndef", text |-> "[HEADER_GUARD_NAME]_H"],
    [line |-> 25, kind |-> "define", text |-> "[HEADER_GUARD_NAME]_H"],
    [line |-> 161, kind |-> "block", text |-> "END METADATA"],
    [line |-> 165, kind |-> "block", text |-> "SETUP"],
    [line |-> 186, kind |-> "section", text |-> "Includes"],
    [line |-> 199, kind |-> "include", text |-> "stddef.h"],
    [line |-> 200, kind |-> "include", text |-> "stdint.h"],
    [line |-> 201, kind |-> "include", text |-> "stdbool.h"],
    [line |-> 202, kind |-> "include", text |-> "stdio.h"],
    [line |-> 208, kind |-> "include", text |-> "[header].h"],
    [line |-> 209, kind |-> "include", text |-> "../[path].h"],
    [line |-> 217, kind |-> "include", text |-> "[external-lib].h"],
    [line |-> 220, kind |-> "section", text |-> "Defines"],
    [line |-> 232, kind |-> "define", text |-> "[CONSTANT_NAME]"],
    [line |-> 233, kind |-> "define", text |-> "[ANOTHER_CONST]"],
    [line |-> 238, kind |-> "define", text |-> "DEFAULT_[THING]"],
    [line |-> 243, kind |-> "define", text |-> "[MACRO_NAME]"],
    [line |-> 246, kind |-> "section", text |-> "Type Definitions"],
    [line |-> 267, kind |-> "typedef", text |-> "[EnumName]"],
    [line |-> 286, kind |-> "typedef", text |-> "[TypeName]"],
    [line |-> 302, kind |-> "typedef", text |-> "[ComposedType]"],
    [line |-> 314, kind |-> "typedef", text |-> "[Config]"],
    [line |-> 321, kind |-> "typedef", text |-> "[OpaqueType]"],
    [line |-> 332, kind |-> "typedef", text |-> "[ErrorCode]"],
    [line |-> 335, kind |-> "section", text |-> "Function Prototypes"],
    [line |-> 354, kind |-> "proto", text |-> "[type]_create"],
    [line |-> 362, kind |-> "proto", text |-> "[type]_init"],
    [line |-> 368, kind |-> "proto", text |-> "[type]_destroy"],
    [line |-> 374, kind |-> "proto", text |-> "[type]_get_[field]"],
    [line |-> 377, kind |-> "proto", text |-> "[type]_set_[field]"],
    [line |-> 391, kind |-> "proto", text |-> "[type]_to_string"],
    [line |-> 394, kind |-> "section", text |-> "Extern Declarations"],
    [line |-> 412, kind |-> "var", text |-> "[g_variable_name]"],
    [line |-> 421, kind |-> "var", text |-> "[g_config_var]"],
    [line |-> 432, kind |-> "typedef", text |-> "[CallbackName]"],
    [line |-> 437, kind |-> "block", text |-> "END SETUP"],
    [line |-> 441, kind |-> "block", text |-> "BODY"],
    [line |-> 451, kind |-> "section", text |-> "Organizational Chart - Declared Interface Structure"],
    [line |-> 491, kind |-> "section", text |-> "Helpers/Utilities - Internal Support Declarations"],
    [line |-> 513, kind |-> "proto", text |-> "[helper_name]"],
    [line |-> 516, kind |-> "section", text |-> "Core Operations - Business Logic Declarations"],
    [line |-> 527, kind |-> "section", text |-> "[Category 1 Name] - [Purpose]"],
    [line |-> 546, kind |-> "proto", text |-> "[function_name]"],
    [line |-> 549, kind |-> "section", text |-> "[Category 2 Name] - [Purpose]"],
    [line |-> 556, kind |-> "section", text |-> "Error Handling - Error Types and Recovery Declarations"],
    [line |-> 577, kind |-> "proto", text |-> "[component]_get_error_string"],
    [line |-> 585, kind |-> "proto", text |-> "[component]_is_error"],
    [line |-> 590, kind |-> "section", text |-> "Public APIs - Exported Interface Declarations"],
    [line |-> 622, kind |-> "proto", text |-> "[PublicFunctionName]"],
    [line |-> 627, kind |-> "block", text |-> "END BODY"],
    [line |-> 631, kind |-> "block", text |-> "CLOSING"],
    [line |-> 637, kind |-> "section", text |-> "Code Validation: Header (Declaration Only)"],
    [line |-> 667, kind |-> "section", text |-> "Code Execution: None (Header)"],
    [line |-> 703, kind |-> "section", text |-> "Code Cleanup: None (Header)"],
    [line |-> 738, kind |-> "final", text |-> "FINAL DOCUMENTATION"],
    [line |-> 742, kind |-> "section", text |-> "Library Overview & Integration Summary"],
    [line |-> 764, kind |-> "section", text |-> "Modification Policy"],
    [line |-> 794, kind |-> "section", text |-> "Ladder and Baton Flow"],
    [line |-> 812, kind |-> "section", text |-> "Surgical Update Points (Extension Guide)"],
    [line |-> 829, kind |-> "section", text |-> "Performance Considerations"],
    [line |-> 845, kind |-> "section", text |-> "Troubleshooting Guide"],
    [line |-> 865, kind |-> "section", text |-> "Related Components & Dependencies"],
    [line |-> 884, kind |-> "section", text |-> "Future Expansions & Roadmap"],
    [line |-> 931, kind |-> "section", text |-> "Closing Note"],
    [line |-> 954, kind |-> "section", text |-> "Quick Reference: Usage Examples"],
    [line |-> 985, kind |-> "block", text |-> "END CLOSING"],
    [line |-> 988, kind |-> "endif", text |-> ""]
    >>

\* A template with a block's END banner lost: the file a careless edit leaves.
ItemsWithoutEndBody(f) ==
    SelectSeq(IF f = "c" THEN CSourceItems ELSE HeaderItems,
              LAMBDA it : it.text # "END BODY")

\* A header whose Type Definitions and Function Prototypes banners changed places.
ItemsHeaderSectionsSwapped(f) ==
    IF f = "c" THEN CSourceItems
    ELSE [i \in DOMAIN HeaderItems |->
            IF HeaderItems[i].text = "Type Definitions"
            THEN [HeaderItems[i] EXCEPT !.text = "Function Prototypes"]
            ELSE IF HeaderItems[i].text = "Function Prototypes"
            THEN [HeaderItems[i] EXCEPT !.text = "Type Definitions"]
            ELSE HeaderItems[i]]

Items(f) == IF f = "c" THEN CSourceItems ELSE HeaderItems

\* The source template with line 391 (static Logger* component_logger) uncommented.
LiveLinesLoggerUncommented == [c |-> {391, 838, 869, 870}, h |-> {24, 25, 988}]

\* The lines of each file that are neither blank nor comments.
LiveLines == [c |-> {838, 869, 870}, h |-> {24, 25, 988}]

\* Whether the code on line ln of file f is compiled in the variant v.
Live(v, f, ln) == ln \in LiveLines[f] \/ v = "enabled"

\* The four top-level blocks, in the order the convention gives them.
BlockOrder == << "METADATA", "SETUP", "BODY", "CLOSING" >>

IsEndBanner(text) ==
    text \in {"END METADATA", "END SETUP", "END BODY", "END CLOSING"}

\* The block an END banner closes.
EndedBlock(text) ==
    CASE text = "END METADATA" -> "METADATA"
      [] text = "END SETUP"    -> "SETUP"
      [] text = "END BODY"     -> "BODY"
      [] text = "END CLOSING"  -> "CLOSING"

\* The section order each SETUP block states for itself.
StatedOrder(f) ==
    IF f = "c"
    THEN << "Includes", "Defines", "Types", "Static Variables", "Function Prototypes" >>
    ELSE << "Includes", "Defines", "Type Definitions", "Function Prototypes",
            "Extern Declarations" >>

\* The name a section banner goes by in the stated order: the source template's
\* Defines banner reads "Defines (Constants)".
SectionLabel(text) == IF text = "Defines (Constants)" THEN "Defines" ELSE text

\* A preprocessor that ignores the guard's #ifndef.
GuardNeverSkips(name) == FALSE

\* #ifndef name: the lines up to #endif are skipped when name is defined.
GuardSkips(name) == name \in macros

Declares(kind) == kind \in {"define", "var", "typedef", "proto", "func"}

\* Every name a code line of either file declares.
Names ==
    {CSourceItems[i].text : i \in {j \in DOMAIN CSourceItems : Declares(CSourceItems[j].kind)}}
    \cup
    {HeaderItems[i].text : i \in {j \in DOMAIN HeaderItems : Declares(HeaderItems[j].kind)}}

Declared(name) == name \in Names /\ symbols[name] > 0

AddSymbol(name) == [symbols EXCEPT ![name] = @ + 1]

ScanDone == scanPos = Len(Items(file))

\* Read the next banner or code line of the file.
Scan ==
    /\ pc = "idle"
    /\ ~ScanDone
    /\ LET it == Items(file)[scanPos + 1]
           on == Live(variant, file, it.line) /\ ~skipping
       IN  /\ scanPos' = scanPos + 1
           /\ skipping' =
                IF it.kind = "ifndef" /\ Live(variant, file, it.line)
                THEN GuardSkips(it.text)
                ELSE IF it.kind = "endif" THEN FALSE ELSE skipping
           /\ macros' = IF it.kind = "define" /\ on THEN macros \cup {it.text} ELSE macros
           /\ symbols' = IF Declares(it.kind) /\ on THEN AddSymbol(it.text) ELSE symbols
           /\ includes' = IF it.kind = "include" /\ on THEN includes \cup {it.text}
                          ELSE includes
           /\ fileVars' = IF it.kind = "var" /\ on THEN fileVars \cup {it.text}
                          ELSE fileVars
           /\ ended' = IF it.kind = "block" /\ IsEndBanner(it.text)
                       THEN Append(ended, EndedBlock(it.text)) ELSE ended
           /\ started' = IF it.kind = "block" /\ ~IsEndBanner(it.text)
                         THEN Append(started, it.text) ELSE started
           /\ block' = IF it.kind # "block" THEN block
                       ELSE IF IsEndBanner(it.text) THEN "" ELSE it.text
           /\ sections' = IF it.kind = "section" /\ block = "SETUP"
                          THEN Append(sections, SectionLabel(it.text)) ELSE sections
    /\ UNCHANGED << variant, file, pass, lastCall, logCalls >>
    /\ UNCHANGED lifeVars
    /\ UNCHANGED mainVars

\* The header is included once more in the same translation unit: it is read
\* again from its first line, with the macros and declarations so far kept.
\* The #include lines of a translation unit come before its code: none of its
\* usage blocks has begun.
IncludeAgain ==
    /\ file = "h"
    /\ ScanDone
    /\ pass < MaxIncludes
    /\ \A c \in DOMAIN cpc : cpc[c] = "create"
    /\ pass' = pass + 1
    /\ scanPos' = 0
    /\ skipping' = FALSE
    /\ block' = "METADATA"
    /\ ended' = << >>
    /\ started' = << >>
    /\ sections' = << >>
    /\ UNCHANGED << variant, file, macros, symbols, includes, fileVars, lastCall, logCalls >>
    /\ UNCHANGED lifeVars
    /\ UNCHANGED mainVars

\* ------------------------------------------------------------------- main

ArgVectors(n) == [1 .. n -> ArgWords]

InitialValue(v) ==
    IF v \in {"component_logger", "component_inspector"} THEN "NULL" ELSE "[default_value]"

Call(fn, status, ret) == [fn |-> fn, status |-> status, ret |-> ret]

\* The program built from the source template is started.
StartMain ==
    /\ file = "c"
    /\ ScanDone
    /\ Declared("main")
    /\ pc = "idle"
    /\ \E n \in 0 .. MaxArgc : \E av \in ArgVectors(n) :
          /\ argc' = n
          /\ argv' = av
    /\ globals' = [v \in fileVars |-> InitialValue(v)]
    /\ pc' = "step1"
    /\ UNCHANGED << variant, file, trace, errOut, exit, lastCall, logCalls >>
    /\ UNCHANGED lifeVars
    /\ UNCHANGED scanVars

\* 1. Parse command-line arguments
ParseArgs ==
    /\ pc = "step1"
    /\ IF Live(variant, "c", 841)
       THEN \E r \in RetVals :
              /\ trace' = Append(trace, Call("parse_args", IF r # 0 THEN "fail" ELSE "ok", r))
              /\ IF r # 0
                 THEN /\ errOut' = Append(errOut, "Error: Invalid arguments")
                      /\ exit' = {2}
                      /\ pc' = "exited"
                 ELSE /\ pc' = "step2"
                      /\ UNCHANGED << errOut, exit >>
       ELSE /\ pc' = "step2"
            /\ UNCHANGED << trace, errOut, exit >>
    /\ UNCHANGED << variant, file, argc, argv, globals, lastCall, logCalls >>
    /\ UNCHANGED lifeVars
    /\ UNCHANGED scanVars

\* 2. Initialize configuration/logging
InitConfig ==
    /\ pc = "step2"
    /\ trace' = IF Live(variant, "c", 848)
                THEN trace \o << Call("load_config", "void", 0),
                                 Call("setup_logging", "void", 0) >>
                ELSE trace
    /\ pc' = "step3"
    /\ UNCHANGED << variant, file, argc, argv, errOut, exit, globals, lastCall, logCalls >>
    /\ UNCHANGED lifeVars
    /\ UNCHANGED scanVars

\* Step 3 with the exit code of a general error.
ValidateInputsExitsOne ==
    /\ pc = "step3"
    /\ IF Live(variant, "c", 852)
       THEN \E r \in RetVals :
              /\ trace' = Append(trace, Call("validate_inputs", IF r # 0 THEN "fail" ELSE "ok", r))
              /\ IF r # 0
                 THEN /\ errOut' = Append(errOut, "Error: Validation failed")
                      /\ exit' = {1}
                      /\ pc' = "exited"
                 ELSE /\ pc' = "step4"
                      /\ UNCHANGED << errOut, exit >>
       ELSE /\ pc' = "step4"
            /\ UNCHANGED << trace, errOut, exit >>
    /\ UNCHANGED << variant, file, argc, argv, globals, lastCall, logCalls >>
    /\ UNCHANGED lifeVars
    /\ UNCHANGED scanVars

\* 3. Validate inputs
ValidateInputs ==
    /\ pc = "step3"
    /\ IF Live(variant, "c", 852)
       THEN \E r \in RetVals :
              /\ trace' = Append(trace, Call("validate_inputs", IF r # 0 THEN "fail" ELSE "ok", r))
              /\ IF r # 0
                 THEN /\ errOut' = Append(errOut, "Error: Validation failed")
                      /\ exit' = {2}
                      /\ pc' = "exited"
                 ELSE /\ pc' = "step4"
                      /\ UNCHANGED << errOut, exit >>
       ELSE /\ pc' = "step4"
            /\ UNCHANGED << trace, errOut, exit >>
    /\ UNCHANGED << variant, file, argc, argv, globals, lastCall, logCalls >>
    /\ UNCHANGED lifeVars
    /\ UNCHANGED scanVars

\* Step 4 with the return after the failure message lost: main falls through to step 5.
ExecuteMainFallsThrough ==
    /\ pc = "step4"
    /\ IF Live(variant, "c", 859)
       THEN \E r \in RetVals :
              /\ trace' = Append(trace, Call("execute_main", IF r # 0 THEN "fail" ELSE "ok", r))
              /\ errOut' = IF r # 0 THEN Append(errOut, "Error: Execution failed") ELSE errOut
              /\ pc' = "step5"
              /\ UNCHANGED exit
       ELSE /\ pc' = "step5"
            /\ UNCHANGED << trace, errOut, exit >>
    /\ UNCHANGED << variant, file, argc, argv, globals, lastCall, logCalls >>
    /\ UNCHANGED lifeVars
    /\ UNCHANGED scanVars

\* 4. Execute core operation(s)
ExecuteMain ==
    /\ pc = "step4"
    /\ IF Live(variant, "c", 859)
       THEN \E r \in RetVals :
              /\ trace' = Append(trace, Call("execute_main", IF r # 0 THEN "fail" ELSE "ok", r))
              /\ IF r # 0
                 THEN /\ errOut' = Append(errOut, "Error: Execution failed")
                      /\ exit' = {1}
                      /\ pc' = "exited"
                 ELSE /\ pc' = "step5"
                      /\ UNCHANGED << errOut, exit >>
       ELSE /\ pc' = "step5"
            /\ UNCHANGED << trace, errOut, exit >>
    /\ UNCHANGED << variant, file, argc, argv, globals, lastCall, logCalls >>
    /\ UNCHANGED lifeVars
    /\ UNCHANGED scanVars

\* 5. Handle results/output
HandleOutput ==
    /\ pc = "step5"
    /\ trace' = IF Live(variant, "c", 865)
                THEN Append(trace, Call("output_results", "void", 0))
                ELSE trace
    /\ pc' = "step6"
    /\ UNCHANGED << variant, file, argc, argv, errOut, exit, globals, lastCall, logCalls >>
    /\ UNCHANGED lifeVars
    /\ UNCHANGED scanVars

\* Step 6 ending in return 1.
CleanupAndExitReturnsOne ==
    /\ pc = "step6"
    /\ trace' = IF Live(variant, "c", 868)
                THEN Append(trace, Call("cleanup", "void", 0))
                ELSE trace
    /\ exit' = {1}
    /\ pc' = "exited"
    /\ UNCHANGED << variant, file, argc, argv, errOut, globals, lastCall, logCalls >>
    /\ UNCHANGED lifeVars
    /\ UNCHANGED scanVars

\* 6. Cleanup and exit successfully
CleanupAndExit ==
    /\ pc = "step6"
    /\ trace' = IF Live(variant, "c", 868)
                THEN Append(trace, Call("cleanup", "void", 0))
                ELSE trace
    /\ exit' = {0}
    /\ pc' = "exited"
    /\ UNCHANGED << variant, file, argc, argv, errOut, globals, lastCall, logCalls >>
    /\ UNCHANGED lifeVars
    /\ UNCHANGED scanVars

MainNext ==
    \/ StartMain
    \/ ParseArgs
    \/ InitConfig
    \/ ValidateInputs
    \/ ExecuteMain
    \/ HandleOutput
    \/ CleanupAndExit

\* ------------------------------------------------- int-returning functions

\* [ErrorCode]: [PREFIX]_OK is set to 0, each later enumerator is one more.
ErrorCode == [OK |-> 0, ERR_INVALID |-> 1, ERR_NOMEM |-> 2, ERR_IO |-> 3]

ErrorCodes == {ErrorCode.ERR_INVALID, ErrorCode.ERR_NOMEM, ErrorCode.ERR_IO}

\* The functions the templates declare with return type int (main apart).
IntFunctions ==
    {"[function_name]", "[public_function_name]", "[type]_init", "[type]_to_string"}

\* [type]_init handing back [PREFIX]_OK when it failed.
ReturnsInitFailsWithOk(fn, outcome, buf_size) ==
    IF fn = "[type]_init" THEN {0}
    ELSE IF fn = "[type]_to_string"
    THEN IF outcome = "success" THEN 0 .. buf_size - 1 ELSE {-e : e \in ErrorCodes}
    ELSE IF outcome = "success" THEN {0} ELSE {-1, -2}

\* The values fn may return, as its comment and sketch give them.
Returns(fn, outcome, buf_size) ==
    CASE fn = "[function_name]" ->
            \* return 0;  // Success -- callers test status != 0
            IF outcome = "success" THEN {0} ELSE RetVals \ {0}
      [] fn = "[public_function_name]" ->
            \* return -1 (validation), return -2 (processing), return 0 (success)
            IF outcome = "success" THEN {0} ELSE {-1, -2}
      [] fn = "[type]_init" ->
            \* 0 on success, error code on failure
            IF outcome = "success" THEN {ErrorCode.OK} ELSE ErrorCodes
      [] fn = "[type]_to_string" ->
            \* number of characters written (excluding the terminator), or a
            \* negative error code
            IF outcome = "success" THEN 0 .. buf_size - 1 ELSE {-e : e \in ErrorCodes}

\* A caller calls one of the declared int functions.
CallFunction ==
    /\ ScanDone
    /\ pc = "idle"
    /\ \E fn \in {f \in IntFunctions : Declared(f)} :
       \E outcome \in {"success", "failure"} :
       \E buf_size \in 1 .. MaxBufSize :
       \E r \in Returns(fn, outcome, buf_size) :
          lastCall' = [fn |-> fn, outcome |-> outcome, ret |-> r]
    /\ UNCHANGED logCalls
    /\ UNCHANGED lifeVars
    /\ UNCHANGED << variant, file >>
    /\ UNCHANGED scanVars
    /\ UNCHANGED mainVars

\* --------------------------------------------- lifecycle of a [TypeName]

\* The null pointer.
NULL == 0

\* The usage blocks of a program that includes the header, each written after
\* the header's Heap Allocation pattern:
\*     [TypeName]* ptr = [type]_create();
\*     if (ptr == NULL) { /* handle error */ }
\*     // ... use ptr ...
\*     [type]_destroy(ptr);
Clients == 1 .. MaxClients

\* The header is read and declares the lifecycle functions.
LifecycleDeclared ==
    /\ file = "h"
    /\ ScanDone
    /\ pc = "idle"
    /\ Declared("[type]_create")
    /\ Declared("[type]_destroy")

\* [type]_create: a pointer to a new instance, or NULL on failure.  The block c
\* gets the instance c: every allocation is a new instance.
ClientCreate(c) ==
    /\ LifecycleDeclared
    /\ cpc[c] = "create"
    /\ \E ok \in BOOLEAN :
          /\ ptr' = [ptr EXCEPT ![c] = IF ok THEN c ELSE NULL]
          /\ heap' = IF ok THEN [heap EXCEPT ![c] = "live"] ELSE heap
    /\ cpc' = [cpc EXCEPT ![c] = "check"]
    /\ UNCHANGED << frees, misuse, variant, file, lastCall, logCalls >>
    /\ UNCHANGED scanVars
    /\ UNCHANGED mainVars

\* if (ptr == NULL) { /* handle error */ }: the handler leaves the block or
\* lets it go on.
ClientCheck(c) ==
    /\ LifecycleDeclared
    /\ cpc[c] = "check"
    /\ \E next \in (IF ptr[c] = NULL THEN {"done", "use"} ELSE {"use"}) :
          cpc' = [cpc EXCEPT ![c] = next]
    /\ UNCHANGED << heap, frees, ptr, misuse, variant, file, lastCall, logCalls >>
    /\ UNCHANGED scanVars
    /\ UNCHANGED mainVars

\* // ... use ptr ...: the instance is read or written through ptr, when there
\* is one.
ClientUse(c) ==
    /\ LifecycleDeclared
    /\ cpc[c] = "use"
    /\ misuse' = (misuse \/ (ptr[c] # NULL /\ heap[ptr[c]] # "live"))
    /\ cpc' = [cpc EXCEPT ![c] = "destroy"]
    /\ UNCHANGED << heap, frees, ptr, variant, file, lastCall, logCalls >>
    /\ UNCHANGED scanVars
    /\ UNCHANGED mainVars

\* [type]_destroy(self): frees self and its internal resources; NULL-safe.
TypeDestroy(self) ==
    IF self = NULL
    THEN UNCHANGED << heap, frees, misuse >>
    ELSE /\ heap' = [heap EXCEPT ![self] = "freed"]
         /\ frees' = [frees EXCEPT ![self] = @ + 1]
         /\ misuse' = (misuse \/ heap[self] # "live")

\* A block that may call [type]_destroy(ptr) again.
ClientDestroyAgain(c) ==
    /\ LifecycleDeclared
    /\ cpc[c] = "destroy"
    /\ TypeDestroy(ptr[c])
    /\ \E next \in {"destroy", "done"} : cpc' = [cpc EXCEPT ![c] = next]
    /\ UNCHANGED << ptr, variant, file, lastCall, logCalls >>
    /\ UNCHANGED scanVars
    /\ UNCHANGED mainVars

\* [type]_destroy(ptr);
ClientDestroy(c) ==
    /\ LifecycleDeclared
    /\ cpc[c] = "destroy"
    /\ TypeDestroy(ptr[c])
    /\ cpc' = [cpc EXCEPT ![c] = "done"]
    /\ UNCHANGED << ptr, variant, file, lastCall, logCalls >>
    /\ UNCHANGED scanVars
    /\ UNCHANGED mainVars

\* ------------------------------------------------ Rails infrastructure

\* init_[component]: attaches the logger and the inspector.  It is static and
\* no line of either file calls it, main's step 2 included (load_config,
\* setup_logging), so it is no step of the program.
InitComponent ==
    /\ "component_logger" \in DOMAIN globals
    /\ globals' = [globals EXCEPT !["component_logger"] = "logger",
                                  !["component_inspector"] = "inspector"]

\* The program built from the source template is running and its functions
\* can be called: by the steps of main, whose bodies are not in the file, or,
\* for the exported ones, from another file.
Running ==
    /\ file = "c"
    /\ pc \notin {"idle", "exited"}
    /\ Len(logCalls) < MaxLogCalls

\* A call fn(component_logger, ...) made by caller, with the value the variable
\* holds at the call.
LoggerCall(caller, fn) ==
    [caller |-> caller, fn |-> fn, logger |-> globals["component_logger"]]

\* [public_function_name]: validation fails (logger_failure, return -1), the
\* core operation fails (logger_error, return -2), or both succeed
\* (logger_success, return 0).
PublicFunction ==
    /\ Running
    /\ Declared("[public_function_name]")
    /\ \E fn \in {"logger_failure", "logger_error", "logger_success"} :
          logCalls' = Append(logCalls, LoggerCall("[public_function_name]", fn))
    /\ UNCHANGED << variant, file, lastCall >>
    /\ UNCHANGED lifeVars
    /\ UNCHANGED scanVars
    /\ UNCHANGED mainVars

\* log_error: logger_error(component_logger, function, message, health_delta).
LogError ==
    /\ Running
    /\ Declared("log_error")
    /\ logCalls' = Append(logCalls, LoggerCall("log_error", "logger_error"))
    /\ UNCHANGED << variant, file, lastCall >>
    /\ UNCHANGED lifeVars
    /\ UNCHANGED scanVars
    /\ UNCHANGED mainVars

\* ------------------------------------------------------------ specification

NoCall == [fn |-> "", outcome |-> "", ret |-> 0]

Init ==
    /\ variant \in Variants
    /\ file \in Files
    /\ scanPos = 0
    /\ pass = 1
    /\ skipping = FALSE
    /\ macros = {}
    /\ symbols = [n \in Names |-> 0]
    /\ includes = {}
    /\ fileVars = {}
    /\ block = "METADATA"
    /\ ended = << >>
    /\ started = << >>
    /\ sections = << >>
    /\ pc = "idle"
    /\ argc = 0
    /\ argv = << >>
    /\ trace = << >>
    /\ errOut = << >>
    /\ exit = {}
    /\ globals = << >>
    /\ lastCall = NoCall
    /\ heap = [i \in Clients |-> "unallocated"]
    /\ frees = [i \in Clients |-> 0]
    /\ cpc = [c \in Clients |-> "create"]
    /\ ptr = [c \in Clients |-> NULL]
    /\ misuse = FALSE
    /\ logCalls = << >>

Next ==
    \/ Scan
    \/ IncludeAgain
    \/ StartMain
    \/ ParseArgs
    \/ InitConfig
    \/ ValidateInputs
    \/ ExecuteMain
    \/ HandleOutput
    \/ CleanupAndExit
    \/ CallFunction
    \/ \E c \in Clients : ClientCreate(c)
    \/ \E c \in Clients : ClientCheck(c)
    \/ \E c \in Clients : ClientUse(c)
    \/ \E c \in Clients : ClientDestroy(c)
    \/ PublicFunction
    \/ LogError

Spec == Init /\ [][Next]_vars

\* main is one sequential function: once started it runs to its return.
FairSpec == Spec /\ WF_vars(MainNext)

\* ------------------------------------------------------------------ claims

IsPrefix(s, t) == Len(s) <= Len(t) /\ \A i \in 1 .. Len(s) : s[i] = t[i]

Range(s) == {s[i] : i \in DOMAIN s}

\* C1: in both files, read top to bottom, END METADATA, END SETUP, END BODY and
\* END CLOSING occur exactly once and in that order, and the SETUP, BODY and
\* CLOSING start banners occur exactly once, each after the previous block's END
\* banner and before its own.
C1_FourBlocksInOrder ==
    /\ IsPrefix(ended, BlockOrder)
    /\ IsPrefix(started, Tail(BlockOrder))
    /\ Len(started) <= Len(ended)
    /\ Len(ended) <= Len(started) + 1
    /\ ScanDone => ended = BlockOrder /\ started = Tail(BlockOrder)

C1_Witness ==
    /\ file = "c"
    /\ variant = "shipped"
    /\ ScanDone
    /\ ended = BlockOrder
    /\ started = Tail(BlockOrder)

\* The section banners read so far inside SETUP that the stated order names.
StatedSections(f) == SelectSeq(sections, LAMBDA s : s \in Range(StatedOrder(f)))

SectionsFollowStatedOrder(f) ==
    /\ IsPrefix(StatedSections(f), StatedOrder(f))
    /\ "SETUP" \in Range(ended) => StatedSections(f) = StatedOrder(f)

\* C2: in the source template the sections of SETUP appear in the order the block
\* states (Includes, Defines, Types, Static Variables, Function Prototypes), each
\* exactly once.
C2_SourceSetupInStatedOrder == file = "c" => SectionsFollowStatedOrder("c")

\* C3: in the header template the sections of SETUP appear in the order the block
\* states (Includes, Defines, Type Definitions, Function Prototypes, Extern
\* Declarations), each exactly once.
C3_HeaderSetupInStatedOrder == file = "h" => SectionsFollowStatedOrder("h")

C3_Witness ==
    /\ file = "h"
    /\ "SETUP" \in Range(ended)
    /\ sections = StatedOrder("h")

\* C4: main as shipped returns, and returns 0, whatever argc and argv are; it
\* never exits with another code and writes no error.
C4_ShippedMainReturnsZero ==
    /\ [](variant = "shipped" => exit \subseteq {0} /\ errOut = << >>)
    /\ (variant = "shipped" /\ pc = "step1") ~> (pc = "exited" /\ exit = {0})

C4_Witness ==
    /\ variant = "shipped"
    /\ pc = "exited"
    /\ argc > 0
    /\ exit = {0}

\* C5: as shipped, no live line of either file declares a file-scope variable or
\* includes anything (the other file included), and running main changes no
\* variable.
C5_ShippedHasNoSharedState ==
    /\ [](variant = "shipped" => fileVars = {} /\ includes = {} /\ DOMAIN globals = {})
    /\ [][variant = "shipped" => globals' = globals]_vars

C5_Witness ==
    /\ variant = "shipped"
    /\ file = "c"
    /\ pc = "exited"
    /\ fileVars = {}

Called(fn) == \E i \in DOMAIN trace : trace[i].fn = fn

Failed(fn) == \E i \in DOMAIN trace : trace[i].fn = fn /\ trace[i].ret # 0

Succeeded(fn) == \E i \in DOMAIN trace : trace[i].fn = fn /\ trace[i].ret = 0

\* C6: with the six steps enabled main returns 2 when parse_args or
\* validate_inputs fails, 1 when execute_main fails, 0 exactly when all three
\* succeed, and nothing else.
C6_ExitCodeFollowsTable ==
    variant = "enabled" /\ pc = "exited" =>
        /\ exit \in {{0}, {1}, {2}}
        /\ Failed("parse_args") \/ Failed("validate_inputs") => exit = {2}
        /\ Failed("execute_main") => exit = {1}
        /\ exit = {0} <=> /\ Succeeded("parse_args")
                          /\ Succeeded("validate_inputs")
                          /\ Succeeded("execute_main")

C6_Witness ==
    /\ variant = "enabled"
    /\ pc = "exited"
    /\ Failed("execute_main")
    /\ exit = {1}

\* The calls of main's six steps, in the documented order.
StepOrder ==
    << "parse_args", "load_config", "setup_logging", "validate_inputs", "execute_main",
       "output_results", "cleanup" >>

\* C7: with the six steps enabled the steps run in the documented order;
\* execute_main runs only after parse_args and validate_inputs succeeded,
\* output_results only after execute_main succeeded, and nothing runs after a
\* failed step.
C7_StepsInDocumentedOrder ==
    variant = "enabled" =>
        /\ IsPrefix([i \in DOMAIN trace |-> trace[i].fn], StepOrder)
        /\ Called("execute_main") => Succeeded("parse_args") /\ Succeeded("validate_inputs")
        /\ Called("output_results") => Succeeded("execute_main")
        /\ \A i \in DOMAIN trace : trace[i].ret # 0 => i = Len(trace)

C7_Witness ==
    /\ variant = "enabled"
    /\ pc = "exited"
    /\ Len(trace) = Len(StepOrder)

\* C8: with the six steps enabled, on every path on which step 2 ran, cleanup()
\* is called before main returns.
C8_CleanupOnEveryPath ==
    variant = "enabled" /\ pc = "exited" /\ Called("load_config") => Called("cleanup")

\* C9 as stated: every int-returning function returns 0 on success and a non-zero
\* value on failure.
C9_ZeroIffSuccess ==
    lastCall.fn # "" => (lastCall.outcome = "success" <=> lastCall.ret = 0)

\* C9: every int-returning function returns 0 on success and a non-zero value on
\* failure, except [type]_to_string, which returns a count >= 0 on success and a
\* negative error code on failure.
C9_ZeroIffSuccessButToString ==
    lastCall.fn # "" =>
        IF lastCall.fn = "[type]_to_string"
        THEN lastCall.outcome = "success" <=> lastCall.ret >= 0
        ELSE lastCall.outcome = "success" <=> lastCall.ret = 0

C9_Witness ==
    /\ lastCall.fn = "[type]_to_string"
    /\ lastCall.outcome = "success"
    /\ lastCall.ret > 0

\* The names the live lines of the header declare in the variant v.
HeaderDeclarations(v) ==
    {HeaderItems[i].text :
        i \in {j \in DOMAIN HeaderItems :
                  Declares(HeaderItems[j].kind) /\ Live(v, "h", HeaderItems[j].line)}}

\* C10: once the first inclusion has defined the guard, a further inclusion of the
\* header adds no declaration: after n >= 1 inclusions the declarations are those
\* of one inclusion, each made once.
C10_IncludeIsIdempotent ==
    file = "h" =>
        /\ \A n \in Names : symbols[n] <= 1
        /\ pass > 1 => {n \in Names : symbols[n] > 0} = HeaderDeclarations(variant)

C10_Witness ==
    /\ file = "h"
    /\ variant = "enabled"
    /\ pass > 1
    /\ ScanDone
    /\ symbols["[type]_create"] = 1

\* C11: in a program written after the header's usage pattern, every instance
\* [type]_create returned is freed by exactly one [type]_destroy once its block
\* is done and never more than once, no instance is used or destroyed after it
\* was destroyed, and [type]_destroy(NULL) changes nothing.
C11_CreatedInstancesFreedOnce ==
    /\ [](/\ ~misuse
          /\ \A i \in Clients : frees[i] <= 1
          /\ \A c \in Clients :
                cpc[c] = "done" /\ ptr[c] # NULL =>
                    frees[ptr[c]] = 1 /\ heap[ptr[c]] = "freed")
    /\ [][\A c \in Clients :
             cpc[c] = "destroy" /\ cpc'[c] = "done" /\ ptr[c] = NULL =>
                 heap' = heap /\ frees' = frees /\ misuse' = misuse]_vars

C11_Witness ==
    /\ \A c \in Clients : cpc[c] = "done"
    /\ ptr[1] = 1
    /\ frees[1] = 1
    /\ ptr[2] = NULL
    /\ heap[2] = "unallocated"

\* C12: init_[component] runs before any other function of the file: at every
\* call that passes component_logger to logger_success, logger_failure or
\* logger_error the variable is not NULL.
C12_LoggerSetBeforeUse ==
    \A i \in DOMAIN logCalls : logCalls[i].logger # "NULL"

====
